---------------------------- MODULE Spec2Model ----------------------------
(***************************************************************************)
(* PenmanEvaporation (src/penman_calculation.py): the engine object with   *)
(* its three stored fields, and calculate_daily_evaporation with the       *)
(* helper _calculate_ra_and_N.                                             *)
(*                                                                         *)
(* Numbers.  The program computes in binary64; the model computes in       *)
(* fixed point, every quantity an integer count of a stated unit, and      *)
(* every rounding truncates toward zero (sign-symmetric, like IEEE         *)
(* rounding):                                                              *)
(*   latitude_deg          hundredths of a degree   (3196 is 31.96)        *)
(*   latitude_rad, angles  1/10^4 rad                                      *)
(*   sine values, N, Ra    1/10^4                                          *)
(*   t_mean                half degrees Celsius     (56 is 28.0)           *)
(*   rh_mean               units of 5 percent       (9 is 45)              *)
(*   rs                    tenths of MJ/m2/day      (220 is 22.0)          *)
(*   u                     half m/s                 (5 is 2.5)             *)
(*   albedo                hundredths               (8 is 0.08)            *)
(*   elevation             metres                                          *)
(*   term1 .. e_pen, ret   1/(2*10^7) mm/day                               *)
(* On this grid term3 and elevation_correction are exact; term1, term2,    *)
(* N and Ra are rounded.  Magnitudes near the binary64 limits (overflow    *)
(* of ** , NaN, infinities) are outside the model.                         *)
(***************************************************************************)
EXTENDS Integers, Sequences, FiniteSets, TLC

VARIABLES site, engine, bind, call

vars == <<site, engine, bind, call>>

---------------------------------------------------------------------------
(* Bounds of the model.                                                    *)

\* wind speeds offered to a call: absent, and 2.5*k m/s for k in 0..MaxUK
MaxUK == 1
\* site elevations offered to the constructor: 30*k m for k in 0..MaxElevK
MaxElevK == 2
\* number of concurrent callers of one engine in SpecConc
NCallers == 2

---------------------------------------------------------------------------
(* Fixed-point arithmetic.                                                 *)

S == 10^4

Abs(x) == IF x < 0 THEN -x ELSE x

\* quotient truncated toward zero; b /= 0
TDiv(a, b) ==
    LET q == Abs(a) \div Abs(b)
    IN  IF (a >= 0) = (b > 0) THEN q ELSE -q

RECURSIVE ISqrtIn(_, _, _)
ISqrtIn(n, lo, hi) ==
    IF lo >= hi THEN lo
    ELSE LET mid == (lo + hi + 1) \div 2
         IN  IF mid * mid <= n THEN ISqrtIn(n, mid, hi)
             ELSE ISqrtIn(n, lo, mid - 1)

\* floor of the square root of n, 0 <= n < 46340^2
ISqrt(n) == ISqrtIn(n, 0, 46340)

Pi == 31416

TwoPi == 2 * Pi

HalfPi == Pi \div 2

\* x * (1 - x2/6 * (1 - x2/20 * (1 - x2/42 * (1 - x2/72)))), x2 = x * x
SinHorner(x, x2) ==
    TDiv(x * (S - TDiv(TDiv(x2 * (S - TDiv(TDiv(x2 *
         (S - TDiv(TDiv(x2 * (S - TDiv(x2, 72)), S), 42)), S), 20)), S), 6)),
         S)

\* sine on [0, pi/2] by its Taylor polynomial of degree 9
SinQuadrant(x) == SinHorner(x, TDiv(x * x, S))

\* sine of r in [0, 2 pi), folded onto the first quadrant
SinReduced(r) ==
    (IF r <= Pi THEN 1 ELSE -1)
    * SinQuadrant(IF r <= HalfPi THEN r
                  ELSE IF r <= Pi THEN Pi - r
                  ELSE IF r <= Pi + HalfPi THEN r - Pi
                  ELSE TwoPi - r)

\* math.sin
math_sin(x) == (IF x < 0 THEN -1 ELSE 1) * SinReduced(Abs(x) % TwoPi)

\* math.radians: the argument times the constant pi/180 (0.0174533)
math_radians(deg100) == TDiv(deg100 * 174533, 10^5)

\* a domain test that also rejects zero
math_sqrt_raises_at_zero(x) == x <= 0

\* math.sqrt raises ValueError (math domain error) on a negative argument
math_sqrt_raises(x) == x < 0

\* math.sqrt of x/2, in thousandths, for x >= 0 in halves
math_sqrt(x2) == ISqrt(x2 * 500000)

\* float division raises ZeroDivisionError on a zero divisor
division_raises(d) == d = 0

\* the clamp left out
max0_unclamped(e_pen) == e_pen

\* max(0, e_pen)
max0(e_pen) == IF e_pen > 0 THEN e_pen ELSE 0

---------------------------------------------------------------------------
(* datetime.strptime(date, '%Y-%m-%d').date()                              *)

Digits == {"0", "1", "2", "3", "4", "5", "6", "7", "8", "9"}

NonZeroDigits == Digits \ {"0"}

DigitVal(c) ==
    CASE c = "0" -> 0 [] c = "1" -> 1 [] c = "2" -> 2 [] c = "3" -> 3
      [] c = "4" -> 4 [] c = "5" -> 5 [] c = "6" -> 6 [] c = "7" -> 7
      [] c = "8" -> 8 [] c = "9" -> 9 [] OTHER -> 0

\* the character at position i, "" past the end
At(s, i) == IF i >= 1 /\ i <= Len(s) THEN s[i] ELSE ""

IsLeap(y) == (y % 4 = 0) /\ ((y % 100 /= 0) \/ (y % 400 = 0))

DaysInMonth(y, m) ==
    IF m = 2 THEN (IF IsLeap(y) THEN 29 ELSE 28)
    ELSE IF m \in {4, 6, 9, 11} THEN 30 ELSE 31

\* %d is 3[0-1]|[1-2]\d|0[1-9]|[1-9]| [1-9], tried in this order at
\* position p: the number of characters matched, 0 for no match
DayMatchLen(s, p) ==
    IF At(s, p) = "3" /\ At(s, p + 1) \in {"0", "1"} THEN 2
    ELSE IF At(s, p) \in {"1", "2"} /\ At(s, p + 1) \in Digits THEN 2
    ELSE IF At(s, p) = "0" /\ At(s, p + 1) \in NonZeroDigits THEN 2
    ELSE IF At(s, p) \in NonZeroDigits THEN 1
    ELSE IF At(s, p) = " " /\ At(s, p + 1) \in NonZeroDigits THEN 2
    ELSE 0

\* what follows %m in the pattern: "-" and %d
AfterMonth(s, p) == At(s, p) = "-" /\ DayMatchLen(s, p + 1) > 0

\* %m is 1[0-2]|0[1-9]|[1-9]: the first alternative after which the rest
\* of the pattern matches, 0 for no match
MonthMatchLen(s) ==
    IF      At(s, 6) = "1" /\ At(s, 7) \in {"0", "1", "2"} /\ AfterMonth(s, 8)
    THEN 2
    ELSE IF At(s, 6) = "0" /\ At(s, 7) \in NonZeroDigits /\ AfterMonth(s, 8)
    THEN 2
    ELSE IF At(s, 6) \in NonZeroDigits /\ AfterMonth(s, 7)
    THEN 1
    ELSE 0

\* the number written at positions p .. p+n-1 (a blank counts as nothing)
RECURSIVE NumberAt(_, _, _)
NumberAt(s, p, n) ==
    IF n = 0 THEN 0
    ELSE 10 * NumberAt(s, p, n - 1) + DigitVal(At(s, p + n - 1))

NoDate == [ok |-> FALSE, year |-> 0, month |-> 0, day |-> 0]

\* datetime.date(y, m, d), or the ValueError of a date that does not exist
MakeDate(y, m, d) ==
    IF y < 1 THEN NoDate                            \* year 0 is out of range
    ELSE IF d > DaysInMonth(y, m) THEN NoDate       \* day is out of range
    ELSE [ok |-> TRUE, year |-> y, month |-> m, day |-> d]

\* the match of %Y-%m-%d with a month of ml and a day of dl characters
Matched(s, ml, dl) ==
    IF ml = 0 THEN NoDate                           \* does not match format
    ELSE IF Len(s) /= 6 + ml + dl THEN NoDate       \* unconverted data remains
    ELSE MakeDate(NumberAt(s, 1, 4), NumberAt(s, 6, ml),
                  NumberAt(s, 7 + ml, dl))

\* %Y is four digits, then "-", then %m with a match of ml characters
MatchFrom(s, ml) ==
    IF (\A i \in 1..4 : At(s, i) \in Digits) /\ At(s, 5) = "-"
    THEN Matched(s, ml, DayMatchLen(s, 7 + ml))
    ELSE NoDate                                     \* does not match format

strptime(s) == MatchFrom(s, MonthMatchLen(s))

---------------------------------------------------------------------------
(* The engine.                                                             *)

Fields == {"latitude_rad", "elevation", "albedo"}

\* __init__
PenmanEvaporation(latitude_deg, elevation, albedo) ==
    [latitude_rad |-> math_radians(latitude_deg),
     elevation    |-> elevation,
     albedo       |-> albedo]

\* a call frame: the arguments and the local variables of one call
NewFrame(args) ==
    [pc |-> "entered", args |-> args,
     month |-> 0, ra |-> 0, N |-> 0, a_u |-> 0, b_u |-> 0,
     term1 |-> 0, term2 |-> 0, term3 |-> 0,
     elevation_correction |-> 0, e_pen |-> 0,
     raised |-> "", ret |-> 0]

IdleFrame == [NewFrame([date |-> [kind |-> "date", text |-> <<>>,
                                  year |-> 0, month |-> 0, day |-> 0],
                        t_mean |-> 0, rh_mean |-> 0, rs |-> 0, u |-> <<>>,
                        wind_function |-> ""])
              EXCEPT !.pc = "idle"]

Raise(f, kind) == [f EXCEPT !.pc = "raised", !.raised = kind]

\* the tropic boundary 23.5 * math.pi / 180
TropicRad == TDiv(TDiv(2350 * Pi, 100), 180)

\* the zone test with >= for >
IsTemperate_inclusive(phi) == Abs(phi) >= TropicRad

\* abs(phi) > 23.5 * math.pi / 180
IsTemperate(phi) == Abs(phi) > TropicRad

\* N = 4 * phi * sin(0.53 * month - 1.65) + 12
DaylightHours(phi, month) ==
    TDiv(4 * phi * math_sin(5300 * month - 16500), S) + 12 * S

\* Ra = 3 * N * sin(0.131 * N - 0.95 * phi)
RaTemperate(N, phi) ==
    3 * TDiv(N * math_sin(TDiv(131 * N, 1000) - TDiv(95 * phi, 100)), S)

\* Ra = 118 * N ** 2 * sin(0.131 * N - 0.2 * phi)
RaTropical(N, phi) ==
    LET N2 == TDiv(TDiv(N, 10) * TDiv(N, 10), S)    \* N ** 2 in hundredths
    IN  118 * TDiv(N2 * math_sin(TDiv(131 * N, 1000) - TDiv(20 * phi, 100)),
                   100)

\* a parse failure replaced by a default date
NormalizeDate_default(date) ==
    IF date.kind = "text"
    THEN IF strptime(date.text).ok THEN strptime(date.text)
         ELSE [ok |-> TRUE, year |-> 2025, month |-> 7, day |-> 1]
    ELSE [ok |-> TRUE, year |-> date.year, month |-> date.month,
          day |-> date.day]

\* the date the body of _calculate_ra_and_N works on
NormalizeDate(date) ==
    IF date.kind = "text" THEN strptime(date.text)
    ELSE [ok |-> TRUE, year |-> date.year, month |-> date.month,
          day |-> date.day]

\* lines 113-119: Ra from N and phi, and the pair returned
RaOf(f, month, phi, N) ==
    [f EXCEPT !.pc = "geometry", !.month = month, !.N = N,
              !.ra = IF IsTemperate(phi) THEN RaTemperate(N, phi)
                     ELSE RaTropical(N, phi)]

\* lines 107-111: month, phi and N of a date that is a date
GeometryOf(f, date, phi) ==
    IF ~date.ok THEN Raise(f, "FormatError")
    ELSE RaOf(f, date.month, phi, DaylightHours(phi, date.month))

\* _calculate_ra_and_N, as called on line 59: the frame with ra and N
\* bound, or with the error raised
ra_and_N_frame(self, f) ==
    GeometryOf(f, NormalizeDate(f.args.date), self.latitude_rad)

\* the month of the last call kept on the engine
calculate_ra_and_N_caching(self, f) ==
    [self |-> [latitude_rad |-> self.latitude_rad,
               elevation    |-> self.elevation,
               albedo       |-> self.albedo,
               month        |-> ra_and_N_frame(self, f).month],
     f |-> ra_and_N_frame(self, f)]

\* _calculate_ra_and_N: it assigns to no field of self
calculate_ra_and_N(self, f) ==
    [self |-> self, f |-> ra_and_N_frame(self, f)]

WindFunctions == {"penman1948", "penman1956", "linacre1993"}

\* penman1956 given the a_u of penman1948
WindCoefficients_same_a(wind_function) ==
    IF wind_function = "penman1948" THEN <<1000, 536>>
    ELSE IF wind_function = "penman1956" THEN <<1000, 536>>
    ELSE <<0, 540>>

\* (a_u, b_u) in thousandths
WindCoefficients(wind_function) ==
    IF wind_function = "penman1948" THEN <<1000, 536>>
    ELSE IF wind_function = "penman1956" THEN <<500, 536>>
    ELSE <<0, 540>>

\* an unrecognized name given the coefficients of penman1948
select_wind_function_default(self, f) ==
    IF f.args.u /= <<>>
    THEN [self |-> self,
          f |-> [f EXCEPT !.pc = "coefficients",
                   !.a_u = IF f.args.wind_function \in WindFunctions
                           THEN WindCoefficients(f.args.wind_function)[1]
                           ELSE 1000,
                   !.b_u = IF f.args.wind_function \in WindFunctions
                           THEN WindCoefficients(f.args.wind_function)[2]
                           ELSE 536]]
    ELSE [self |-> self, f |-> [f EXCEPT !.pc = "coefficients"]]

\* the name checked before the branch on u
select_wind_function_eager(self, f) ==
    IF f.args.wind_function \notin WindFunctions
    THEN [self |-> self, f |-> Raise(f, "InvalidParameterError")]
    ELSE IF f.args.u /= <<>>
    THEN [self |-> self,
          f |-> [f EXCEPT !.pc = "coefficients",
                   !.a_u = WindCoefficients(f.args.wind_function)[1],
                   !.b_u = WindCoefficients(f.args.wind_function)[2]]]
    ELSE [self |-> self, f |-> [f EXCEPT !.pc = "coefficients"]]

\* lines 61-71: the branch on u and the choice of (a_u, b_u)
select_wind_function(self, f) ==
    IF f.args.u /= <<>>
    THEN IF f.args.wind_function \in WindFunctions
         THEN [self |-> self,
               f |-> [f EXCEPT !.pc = "coefficients",
                        !.a_u = WindCoefficients(f.args.wind_function)[1],
                        !.b_u = WindCoefficients(f.args.wind_function)[2]]]
         ELSE [self |-> self, f |-> Raise(f, "InvalidParameterError")]
    ELSE [self |-> self, f |-> [f EXCEPT !.pc = "coefficients"]]

\* 0.051 * (1 - albedo) * rs * sqrt(t_mean + 9.5)
Term1Wind(albedo, rs, t_mean) ==
    TDiv(TDiv(51 * (100 - albedo) * rs, 10) * math_sqrt(t_mean + 19), 5)

\* 0.047 * rs * sqrt(t_mean + 9.5)
Term1NoWind(rs, t_mean) == 94 * rs * math_sqrt(t_mean + 19)

\* 2.4 * (rs / ra) ** 2
Term2(rs, ra) ==
    LET q == TDiv(rs * 10^6, ra)
    IN  48 * q * q

\* 0.052 * (t_mean + 20) * (1 - rh_mean / 100) * (a_u - 0.38 + b_u * u)
Term3Wind(t_mean, rh_mean, a_u, b_u, u) ==
    13 * (t_mean + 40) * (20 - rh_mean) * (2 * a_u - 760 + b_u * u)

\* 0.09 * (t_mean + 20) * (1 - rh_mean / 100)
Term3NoWind(t_mean, rh_mean) == 45000 * (t_mean + 40) * (20 - rh_mean)

\* lines 73-76 and 82-85: the frame with term1, term2, term3 bound, or
\* with the error raised (the square root is taken before the division)
terms_frame(self, f) ==
    LET a == f.args
    IN  IF math_sqrt_raises(a.t_mean + 19) \/ division_raises(f.ra)
        THEN Raise(f, "NumericDomainError")
        ELSE [f EXCEPT
                 !.pc = "terms",
                 !.term1 = IF a.u /= <<>>
                           THEN Term1Wind(self.albedo, a.rs, a.t_mean)
                           ELSE Term1NoWind(a.rs, a.t_mean),
                 !.term2 = Term2(a.rs, f.ra),
                 !.term3 = IF a.u /= <<>>
                           THEN Term3Wind(a.t_mean, a.rh_mean, f.a_u, f.b_u,
                                          a.u[1])
                           ELSE Term3NoWind(a.t_mean, a.rh_mean)]

\* 1 - albedo stored back into self.albedo
compute_terms_inplace(self, f) ==
    [self |-> [self EXCEPT !.albedo = 100 - self.albedo],
     f |-> terms_frame(self, f)]

\* lines 73-76 and 82-85: they assign to no field of self
compute_terms(self, f) == [self |-> self, f |-> terms_frame(self, f)]

\* a correction that grows with the square of the elevation
ElevationCorrection_squared(elevation) == 2400 * elevation * elevation

\* 0.00012 * self.elevation
ElevationCorrection(elevation) == 2400 * elevation

\* lines 78-80, 87-89 and 91
finish(self, f) ==
    LET ec    == ElevationCorrection(self.elevation)
        e_pen == f.term1 - f.term2 + f.term3 + ec
    IN  [self |-> self,
         f |-> [f EXCEPT !.pc = "returned", !.elevation_correction = ec,
                         !.e_pen = e_pen, !.ret = max0(e_pen)]]

Finished(f) == f.pc \in {"returned", "raised"}

\* the next piece of calculate_daily_evaporation for a frame in flight
StepOf(self, f) ==
    CASE f.pc = "entered"      -> calculate_ra_and_N(self, f)
      [] f.pc = "geometry"     -> select_wind_function(self, f)
      [] f.pc = "coefficients" -> compute_terms(self, f)
      [] f.pc = "terms"        -> finish(self, f)

\* the pieces in order, from the engine and frame r to the return or raise
RECURSIVE RunToEnd(_)
RunToEnd(r) ==
    IF Finished(r.f) THEN r ELSE RunToEnd(StepOf(r.self, r.f))

\* one whole call
calculate_daily_evaporation(self, args) ==
    RunToEnd([self |-> self, f |-> NewFrame(args)])

\* what a caller observes of a finished call
Outcome(f) == [raised |-> f.raised, ret |-> f.ret]

---------------------------------------------------------------------------
(* Inputs.                                                                 *)

Text(s) == [kind |-> "text", text |-> s, year |-> 0, month |-> 0, day |-> 0]

Date(y, m, d) ==
    [kind |-> "date", text |-> <<>>, year |-> y, month |-> m, day |-> d]

DateTexts ==
    { <<"2","0","2","5","-","0","7","-","1","5">>,
      <<"1","5","-","0","7","-","2","0","2","5">>,
      <<"2","0","2","5","-","7","-","1","5">>,
      <<"2","0","2","5","-","0","7","-"," ","5">>,
      <<"2","0","2","5","-","1","2","-","5">>,
      <<"2","0","2","5","-","1","2","-","3","1">>,
      <<"2","0","2","4","-","0","2","-","2","9">>,
      <<"2","0","2","5","-","0","2","-","2","9">>,
      <<"2","0","2","5","-","0","7","-","3","2">>,
      <<"2","0","2","5","-","1","3","-","0","1">>,
      <<"2","0","2","5","-","0","0","-","1","0">>,
      <<"2","0","2","5","/","0","7","/","1","5">>,
      <<"2","0","2","5","-","0","7","-","1","5","x">>,
      <<"2","0","2","5","-","0","7">>,
      <<"0","0","0","0","-","0","7","-","1","5">>,
      <<>> }

Dates == {Text(s) : s \in DateTexts} \cup {Date(2025, 7, 15), Date(2025, 12, 1)}

USet == {<<>>} \cup {<<5 * k>> : k \in 0..MaxUK}

WindNames == WindFunctions \cup {"foo"}

Args(D, T, H, R, U, W) ==
    [date : D, t_mean : T, rh_mean : H, rs : R, u : U, wind_function : W]

ArgsSeq == Args(Dates, {-20, -19, 56}, {9, 20}, {0, 220}, USet, WindNames)

Elevations == {30 * k : k \in 0..MaxElevK}

Sites(L, E, A) == [latitude_deg : L, elevation : E, albedo : A]

SitesSeq == Sites({-2351, -2350, 0, 2350, 2351, 3196, 6111}, Elevations, {8})

---------------------------------------------------------------------------
(* The state machine.  site[i] holds the constructor's arguments of engine *)
(* instance i, engine[i] its stored fields, bind[c] the instance caller c  *)
(* calls, call[c] the frame of caller c.                                   *)

InitWith(Callers, Insts, SiteSet, Binds) ==
    /\ site \in [Insts -> SiteSet]
    /\ engine = [i \in Insts |->
                   PenmanEvaporation(site[i].latitude_deg, site[i].elevation,
                                     site[i].albedo)]
    /\ bind \in Binds
    /\ call = [c \in Callers |-> IdleFrame]

\* caller c has run code that left its engine and its frame as r
Becomes(c, r) ==
    /\ engine' = [engine EXCEPT ![bind[c]] = r.self]
    /\ call' = [call EXCEPT ![c] = r.f]
    /\ UNCHANGED <<site, bind>>

\* a whole call of caller c, start to return or raise
Call(c, ArgSet) ==
    /\ call[c].pc = "idle"
    /\ \E args \in ArgSet :
          Becomes(c, calculate_daily_evaporation(engine[bind[c]], args))

\* the caller drops the result and is ready to call again
Discard(c) ==
    /\ Finished(call[c])
    /\ call' = [call EXCEPT ![c] = IdleFrame]
    /\ UNCHANGED <<site, engine, bind>>

\* caller c enters calculate_daily_evaporation
Enter(c, ArgSet) ==
    /\ call[c].pc = "idle"
    /\ \E args \in ArgSet : call' = [call EXCEPT ![c] = NewFrame(args)]
    /\ UNCHANGED <<site, engine, bind>>

\* line 59: caller c runs _calculate_ra_and_N
StepGeometry(c) ==
    /\ call[c].pc = "entered"
    /\ Becomes(c, calculate_ra_and_N(engine[bind[c]], call[c]))

\* lines 61-71: caller c branches on u and picks the coefficients
StepWindFunction(c) ==
    /\ call[c].pc = "geometry"
    /\ Becomes(c, select_wind_function(engine[bind[c]], call[c]))

\* lines 73-76, 82-85: caller c computes the three terms
StepTerms(c) ==
    /\ call[c].pc = "coefficients"
    /\ Becomes(c, compute_terms(engine[bind[c]], call[c]))

\* lines 78-80, 87-91: caller c adds the correction, clamps and returns
StepFinish(c) ==
    /\ call[c].pc = "terms"
    /\ Becomes(c, finish(engine[bind[c]], call[c]))

(* One caller, one engine, call after call. *)

Init == InitWith({1}, {1}, SitesSeq, {[c \in {1} |-> 1]})

Next == Call(1, ArgsSeq) \/ Discard(1)

Spec == Init /\ [][Next]_vars

(* Two callers, each with an engine of its own, one call after the other:  *)
(* the pairs of calls that the relational claims compare.                  *)

SitesPair == Sites({6111}, Elevations, {8})

ArgsPair ==
    Args({Date(2025, 7, 15), Date(2024, 2, 29)}, {-20, 56}, {9, 20}, {220},
         {<<>>, <<5>>}, WindNames)

InitPair == InitWith({1, 2}, {1, 2}, SitesPair, {[c \in {1, 2} |-> c]})

DiscardBoth ==
    /\ \A c \in {1, 2} : Finished(call[c])
    /\ call' = [c \in {1, 2} |-> IdleFrame]
    /\ UNCHANGED <<site, engine, bind>>

NextPair ==
    \/ Call(1, ArgsPair)
    \/ (Finished(call[1]) /\ Call(2, ArgsPair))
    \/ DiscardBoth

SpecPair == InitPair /\ [][NextPair]_vars

(* NCallers threads calling one engine, interleaved piece by piece.        *)

Callers == 1..NCallers

SitesConc == Sites({3196, 6111}, {30}, {8})

ArgsConc ==
    Args({Text(<<"2","0","2","5","-","1","2","-","5">>),
          Text(<<"1","5","-","0","7","-","2","0","2","5">>)},
         {-20, 56}, {9}, {220}, {<<>>, <<5>>}, {"penman1948", "foo"})

InitConc == InitWith(Callers, {1}, SitesConc, {[c \in Callers |-> 1]})

NextConc ==
    \E c \in Callers :
       \/ Enter(c, ArgsConc)
       \/ StepGeometry(c)
       \/ StepWindFunction(c)
       \/ StepTerms(c)
       \/ StepFinish(c)
       \/ Discard(c)

SpecConc == InitConc /\ [][NextConc]_vars

---------------------------------------------------------------------------
(* Vocabulary of the properties.                                           *)

CallerIds == DOMAIN call

\* zero-padded YYYY-MM-DD: ten characters, digits around two hyphens
StrictYMD(s) ==
    /\ Len(s) = 10
    /\ \A i \in {1, 2, 3, 4, 6, 7, 9, 10} : s[i] \in Digits
    /\ s[5] = "-"
    /\ s[8] = "-"

MonthTexts ==
    {<<a>> : a \in NonZeroDigits} \cup {<<"0", a>> : a \in NonZeroDigits}
    \cup {<<"1", "0">>, <<"1", "1">>, <<"1", "2">>}

DayTexts ==
    {<<a>> : a \in NonZeroDigits} \cup {<<"0", a>> : a \in NonZeroDigits}
    \cup {<<" ", a>> : a \in NonZeroDigits}
    \cup {<<a, b>> : a \in {"1", "2"}, b \in Digits}
    \cup {<<"3", "0">>, <<"3", "1">>}

TextVal(t) ==
    IF Len(t) = 1 THEN DigitVal(t[1])
    ELSE 10 * DigitVal(t[1]) + DigitVal(t[2])

\* the texts the format %Y-%m-%d accepts, stated as a language: a year of
\* four digits, not 0000; a month 1..12 in one or two digits; a day of that
\* month in one or two digits, or a blank and a digit
AcceptedYMD(s) ==
    \E ml \in {1, 2}, dl \in {1, 2} :
       /\ Len(s) = 6 + ml + dl
       /\ \A i \in 1..4 : s[i] \in Digits
       /\ \E i \in 1..4 : s[i] /= "0"
       /\ s[5] = "-"
       /\ SubSeq(s, 6, 5 + ml) \in MonthTexts
       /\ s[6 + ml] = "-"
       /\ SubSeq(s, 7 + ml, Len(s)) \in DayTexts
       /\ TextVal(SubSeq(s, 7 + ml, Len(s)))
            <= DaysInMonth(1000 * DigitVal(s[1]) + 100 * DigitVal(s[2])
                           + 10 * DigitVal(s[3]) + DigitVal(s[4]),
                           TextVal(SubSeq(s, 6, 5 + ml)))

ValidDate(date) == date.kind = "date" \/ AcceptedYMD(date.text)

Recognized(w) == w \in {"penman1948", "penman1956", "linacre1993"}

\* two calls that agree on the date and the weather, whatever the rest
SameWeather(f, g) ==
    /\ f.args.date = g.args.date
    /\ f.args.t_mean = g.args.t_mean
    /\ f.args.rh_mean = g.args.rh_mean
    /\ f.args.rs = g.args.rs

---------------------------------------------------------------------------
(* Properties.                                                             *)

\* C1: every call that returns, in either branch, returns max(0, e_pen)
\* with e_pen = term1 - term2 + term3 + elevation_correction: never a
\* negative value, 0 when e_pen < 0, e_pen itself when e_pen >= 0.
C1_Clamp ==
    \A c \in CallerIds :
       call[c].pc = "returned" =>
          /\ call[c].e_pen = call[c].term1 - call[c].term2 + call[c].term3
                             + call[c].elevation_correction
          /\ call[c].ret >= 0
          /\ (call[c].e_pen < 0 => call[c].ret = 0)
          /\ (call[c].e_pen >= 0 => call[c].ret = call[c].e_pen)

\* a wind-aware call whose raw value is negative has returned 0
C1_Witness ==
    \E c \in CallerIds :
       /\ call[c].pc = "returned"
       /\ call[c].args.u /= <<>>
       /\ call[c].e_pen < 0
       /\ call[c].ret = 0

\* C2 as stated: a call whose date is text that is not zero-padded
\* YYYY-MM-DD fails with a format error, whatever the other arguments.
C2_Original ==
    \A c \in CallerIds :
       (/\ Finished(call[c])
        /\ call[c].args.date.kind = "text"
        /\ ~StrictYMD(call[c].args.date.text))
       => call[c].raised = "FormatError"

\* C2 amended: a call whose date is text outside the language that
\* %Y-%m-%d accepts fails with a format error and binds no month, ra or N,
\* whatever the other arguments.
C2_Amended ==
    \A c \in CallerIds :
       (/\ Finished(call[c])
        /\ call[c].args.date.kind = "text"
        /\ ~AcceptedYMD(call[c].args.date.text))
       => /\ call[c].pc = "raised"
          /\ call[c].raised = "FormatError"
          /\ call[c].month = 0
          /\ call[c].ra = 0
          /\ call[c].N = 0

\* '15-07-2025' with u given, an unknown wind function and t_mean = -10
\* has failed with a format error
C2_Witness ==
    \E c \in CallerIds :
       /\ call[c].pc = "raised"
       /\ call[c].raised = "FormatError"
       /\ call[c].args.date = Text(<<"1","5","-","0","7","-","2","0","2","5">>)
       /\ call[c].args.u /= <<>>
       /\ call[c].args.wind_function = "foo"
       /\ call[c].args.t_mean = -20

\* C3: with a valid date and u given, an unrecognized wind_function fails
\* with an invalid-parameter error for every t_mean, rh_mean, rs and u, and
\* no coefficients are bound.
C3_InvalidWindFunction ==
    \A c \in CallerIds :
       (/\ Finished(call[c])
        /\ ValidDate(call[c].args.date)
        /\ call[c].args.u /= <<>>
        /\ ~Recognized(call[c].args.wind_function))
       => /\ call[c].pc = "raised"
          /\ call[c].raised = "InvalidParameterError"
          /\ call[c].a_u = 0
          /\ call[c].b_u = 0

\* the error is the invalid-parameter one also at t_mean = -10 and Ra = 0
C3_Witness ==
    \E c \in CallerIds :
       /\ call[c].raised = "InvalidParameterError"
       /\ call[c].args.u /= <<>>
       /\ call[c].args.t_mean = -20
       /\ call[c].ra = 0
       /\ call[c].month = 12

C5_SameAsAlone ==
    \A c \in CallerIds :
       Finished(call[c]) =>
          Outcome(call[c])
            = Outcome(calculate_daily_evaporation(
                         PenmanEvaporation(site[bind[c]].latitude_deg,
                                           site[bind[c]].elevation,
                                           site[bind[c]].albedo),
                         call[c].args).f)

\* caller 1 has returned a value while caller 2 of the same engine is
\* between its terms and its return
C5_Witness ==
    /\ 2 \in CallerIds
    /\ bind[1] = bind[2]
    /\ call[1].pc = "returned"
    /\ call[1].args.u /= <<>>
    /\ call[2].pc = "terms"

\* C6: the engine holds exactly latitude_rad, elevation and albedo, with
\* the values the constructor gave them, in every reachable state.
C6_EngineUnchanged ==
    \A i \in DOMAIN engine :
       /\ DOMAIN engine[i] = Fields
       /\ engine[i].latitude_rad = math_radians(site[i].latitude_deg)
       /\ engine[i].elevation = site[i].elevation
       /\ engine[i].albedo = site[i].albedo

\* a call has failed with a numeric-domain error and the engine is as built
C6_Witness ==
    /\ \E c \in CallerIds : call[c].raised = "NumericDomainError"
    /\ C6_EngineUnchanged

\* an engine and a date and weather shared by the two calls of a pair, u
\* given, the first with penman1948 and the second with penman1956
C7_Pair ==
    /\ call[1].pc = "returned"
    /\ call[2].pc = "returned"
    /\ engine[1] = engine[2]
    /\ SameWeather(call[1], call[2])
    /\ call[1].args.u = call[2].args.u
    /\ call[1].args.u /= <<>>
    /\ call[1].args.wind_function = "penman1948"
    /\ call[2].args.wind_function = "penman1956"

\* 0.052 * (t_mean + 20) * (1 - rh_mean / 100) * 0.5
C7_Difference ==
    13000 * (call[1].args.t_mean + 40) * (20 - call[1].args.rh_mean)

\* C7 as stated: the outputs of such a pair differ by exactly
\* 0.052 * (t_mean + 20) * (1 - rh_mean / 100) * 0.5.
C7_Original == C7_Pair => call[1].ret - call[2].ret = C7_Difference

\* C7 amended: the raw values e_pen of such a pair differ by exactly that
\* amount, and so do the outputs when neither is clamped.
C7_Amended ==
    C7_Pair =>
       /\ call[1].e_pen - call[2].e_pen = C7_Difference
       /\ (call[1].e_pen >= 0 /\ call[2].e_pen >= 0)
             => call[1].ret - call[2].ret = C7_Difference

\* an unclamped pair at rh_mean = 45
C7_Witness ==
    /\ C7_Pair
    /\ call[1].e_pen > 0
    /\ call[2].e_pen > 0
    /\ call[1].args.rh_mean = 9

\* C8: with u absent, two calls that differ only in wind_function end the
\* same, and neither fails with an invalid-parameter error.
C8_WindFunctionIgnored ==
    (/\ Finished(call[1])
     /\ Finished(call[2])
     /\ engine[1] = engine[2]
     /\ SameWeather(call[1], call[2])
     /\ call[1].args.u = <<>>
     /\ call[2].args.u = <<>>)
    => /\ Outcome(call[1]) = Outcome(call[2])
       /\ call[1].raised /= "InvalidParameterError"
       /\ call[2].raised /= "InvalidParameterError"

\* a no-wind pair, one with an unknown name, has returned a positive value
C8_Witness ==
    /\ call[1].pc = "returned"
    /\ call[2].pc = "returned"
    /\ engine[1] = engine[2]
    /\ SameWeather(call[1], call[2])
    /\ call[1].args.u = <<>>
    /\ call[2].args.u = <<>>
    /\ call[1].args.wind_function = "foo"
    /\ call[2].args.wind_function = "penman1948"
    /\ call[1].ret > 0

\* two engines that differ at most in elevation, called with the same
\* arguments, both past the elevation correction
C9_Pair ==
    /\ call[1].pc = "returned"
    /\ call[2].pc = "returned"
    /\ engine[1].latitude_rad = engine[2].latitude_rad
    /\ engine[1].albedo = engine[2].albedo
    /\ call[1].args = call[2].args

\* C9: in both branches e_pen depends on elevation only through the added
\* 0.00012 * elevation: the raw values of such a pair differ by 0.00012
\* times the difference of the elevations, twice the elevation gives twice
\* the correction, and term1, term2, term3, Ra and N are the same.
C9_ElevationLinear ==
    C9_Pair =>
       /\ call[1].e_pen - call[2].e_pen
            = 2400 * (engine[1].elevation - engine[2].elevation)
       /\ (engine[1].elevation = 2 * engine[2].elevation
             => call[1].elevation_correction
                  = 2 * call[2].elevation_correction)
       /\ call[1].term1 = call[2].term1
       /\ call[1].term2 = call[2].term2
       /\ call[1].term3 = call[2].term3
       /\ call[1].ra = call[2].ra
       /\ call[1].N = call[2].N

\* a pair at 60 m and 30 m
C9_Witness ==
    /\ C9_Pair
    /\ engine[1].elevation = 60
    /\ engine[2].elevation = 30
    /\ call[1].elevation_correction = 2 * call[2].elevation_correction
    /\ call[1].elevation_correction > 0

\* C10: Ra is the temperate formula exactly when |latitude| > 23.5 degrees
\* and the tropical one otherwise, -23.5 and 23.5 included, whatever the
\* date and the weather.
C10_ZoneByLatitude ==
    \A c \in CallerIds :
       (Finished(call[c]) /\ call[c].raised /= "FormatError") =>
          LET lat == site[bind[c]].latitude_deg
              phi == engine[bind[c]].latitude_rad
          IN  /\ call[c].N = DaylightHours(phi, call[c].month)
              /\ Abs(lat) > 2350 => call[c].ra = RaTemperate(call[c].N, phi)
              /\ Abs(lat) <= 2350 => call[c].ra = RaTropical(call[c].N, phi)

\* at exactly -23.5 degrees Ra is the tropical value, which is not the
\* temperate one
C10_Witness ==
    \E c \in CallerIds :
       /\ call[c].pc = "returned"
       /\ site[bind[c]].latitude_deg = -2350
       /\ call[c].ra = RaTropical(call[c].N, engine[bind[c]].latitude_rad)
       /\ call[c].ra /= RaTemperate(call[c].N, engine[bind[c]].latitude_rad)

=============================================================================
